---- MODULE Spec2Model ----
(* Model of label_creator.py: the text-fit engine                          *)
(* (find_optimal_font_size_no_wrap), the layout planner                    *)
(* (draw_label_content) and the canvas width resolver inside               *)
(* update_preview / generate_label.                                        *)
(*                                                                         *)
(* Strings are sequences of one-character strings, so that lower(),        *)
(* rstrip("\n"), split("\n") and int() are computed character by           *)
(* character.  Font metrics come from Qt; the model draws the measurer     *)
(* from a small family of metrics that are non-decreasing in point size.   *)
EXTENDS Integers, Sequences, FiniteSets, TLC

VARIABLES
    dims,       \* selected preset: [width, height] (get_current_dimensions)
    padding,    \* padding_check.isChecked()
    icon,       \* selected icon (get_current_icon_path), with its natural size
    text,       \* text_input.toPlainText()
    meas,       \* the font metrics of the platform (QFontMetrics)
    render,     \* what the last completed render produced
    err,        \* exception raised by the last handler, "none" if it returned
    fLines,     \* find_optimal_font_size_no_wrap called on its own: lines
    fMaxW,      \*   max_w
    fMaxH,      \*   max_h
    fStart,     \*   start
    fAccepted,  \*   candidates accepted by the growth loop
    fResult,    \*   returned size
    fpc         \*   "idle", "call" or "done"

vars == <<dims, padding, icon, text, meas, render, err,
          fLines, fMaxW, fMaxH, fStart, fAccepted, fResult, fpc>>

progVars == <<dims, padding, icon, text, render, err>>
fitVars == <<fLines, fMaxW, fMaxH, fStart, fAccepted, fResult, fpc>>

----------------------------------------------------------------------------
(* Bounds *)

MaxTextLen == 3      \* characters typed into the text box
HStep == 25          \* preset heights are multiples of HStep ...
MaxHK == 3           \* ... up to MaxHK * HStep
FixedWidth == 300    \* the integer width of the fixed-width presets
MaxLines == 3        \* lines handed to the fit engine on its own
MaxLineLen == 2      \* characters per such line
NegFitH == 3         \* max_h handed to the fit engine on its own: from -NegFitH
MaxFitH == 50        \*   up to MaxFitH
MaxStart == 14       \* largest start size (the callers pass 12..36)

----------------------------------------------------------------------------
(* Helpers *)

Max(a, b) == IF a >= b THEN a ELSE b
Min(a, b) == IF a <= b THEN a ELSE b

\* int(x) of a quotient n/d (d > 0): truncation toward zero
TruncDiv(n, d) == IF n >= 0 THEN n \div d ELSE -((-n) \div d)

NL == "\n"

\* str.lower(), for the letters the model's strings use
LowerChar(c) ==
    CASE c = "A" -> "a"
      [] c = "U" -> "u"
      [] c = "T" -> "t"
      [] c = "O" -> "o"
      [] OTHER -> c

Lower(s) == [i \in 1..Len(s) |-> LowerChar(s[i])]

\* str.rstrip("\n")
RECURSIVE RStripNL(_)
RStripNL(s) ==
    IF s # <<>> /\ s[Len(s)] = NL THEN RStripNL(SubSeq(s, 1, Len(s) - 1)) ELSE s

\* str.split("\n"): always at least one (possibly empty) line
RECURSIVE SplitNL(_)
SplitNL(s) ==
    IF \E i \in 1..Len(s) : s[i] = NL
    THEN LET i == CHOOSE j \in 1..Len(s) :
                      s[j] = NL /\ \A k \in 1..(j - 1) : s[k] # NL
         IN <<SubSeq(s, 1, i - 1)>> \o SplitNL(SubSeq(s, i + 1, Len(s)))
    ELSE <<s>>

Digits == <<"0", "1", "2", "3", "4", "5", "6", "7", "8", "9">>
IsDigit(c) == \E d \in 1..10 : Digits[d] = c
DigitVal(c) == (CHOOSE d \in 1..10 : Digits[d] = c) - 1

RECURSIVE DecimalVal(_)
DecimalVal(s) ==
    IF s = <<>> THEN 0
    ELSE 10 * DecimalVal(SubSeq(s, 1, Len(s) - 1)) + DigitVal(s[Len(s)])

----------------------------------------------------------------------------
(* Font metrics *)

\* QFont("Arial", size): a point size <= 0 selects the default size
DefaultPointSize == 12
QFontPointSize(size) == IF size <= 0 THEN DefaultPointSize ELSE size

\* fm.height() at point size pt
LineHeight(m, pt) == (pt * m.hNum) \div m.hDen

\* fm.horizontalAdvance(line) at point size pt
LineWidth(m, pt, line) == Len(line) * ((pt * m.wNum) \div m.wDen)

\* metrics of the platform's font: a line is at least as high as the point
\* size
Measurers ==
    { [hNum |-> 1, hDen |-> 1, wNum |-> 1, wDen |-> 2],
      [hNum |-> 3, hDen |-> 2, wNum |-> 2, wDen |-> 3] }

\* any metrics that are non-decreasing in the point size
AnyMeasurers ==
    Measurers \cup { [hNum |-> 1, hDen |-> 2, wNum |-> 1, wDen |-> 1] }

----------------------------------------------------------------------------
(* Text-fit engine: find_optimal_font_size_no_wrap *)

\* the overflow test of the growth and of the shrink loop
OverflowsHeightOnly(m, pt, lines, max_w, max_h) ==
    LineHeight(m, pt) * Len(lines) > max_h

Overflows(m, pt, lines, max_w, max_h) ==
    \/ LineHeight(m, pt) * Len(lines) > max_h
    \/ \E i \in 1..Len(lines) : LineWidth(m, pt, lines[i]) > max_w

HeightLimit(lines, max_h) ==
    IF Len(lines) = 1 THEN max_h ELSE max_h \div (Len(lines) + 1)

\* the candidates the growth loop accepts, in order, starting after size
RECURSIVE GrowNoCeiling(_, _, _, _, _)
GrowNoCeiling(size, lines, max_w, max_h, m) ==
    LET next_size == size + 2 IN
    IF Overflows(m, next_size, lines, max_w, max_h) THEN <<>>
    ELSE <<next_size>> \o GrowNoCeiling(next_size, lines, max_w, max_h, m)

RECURSIVE Grow(_, _, _, _, _)
Grow(size, lines, max_w, max_h, m) ==
    LET next_size == size + 2 IN
    IF next_size > HeightLimit(lines, max_h) THEN <<>>
    ELSE IF Overflows(m, next_size, lines, max_w, max_h) THEN <<>>
    ELSE <<next_size>> \o Grow(next_size, lines, max_w, max_h, m)

\* the size the shrink loop starts from
PreShrink(lines, max_w, max_h, start, m) ==
    IF Len(lines) = 1 THEN HeightLimit(lines, max_h)
    ELSE LET acc == Grow(start, lines, max_w, max_h, m)
         IN IF acc = <<>> THEN start ELSE acc[Len(acc)]

RECURSIVE ShrinkBy2(_, _, _, _, _)
ShrinkBy2(size, lines, max_w, max_h, m) ==
    IF size > 10 /\ Overflows(m, size, lines, max_w, max_h)
    THEN ShrinkBy2(size - 2, lines, max_w, max_h, m)
    ELSE size

RECURSIVE Shrink(_, _, _, _, _)
Shrink(size, lines, max_w, max_h, m) ==
    IF size > 10 /\ Overflows(m, size, lines, max_w, max_h)
    THEN Shrink(size - 1, lines, max_w, max_h, m)
    ELSE size

Fit(lines, max_w, max_h, start, m) ==
    Shrink(PreShrink(lines, max_w, max_h, start, m), lines, max_w, max_h, m)

----------------------------------------------------------------------------
(* Layout planner: draw_label_content *)

BaseSize(height) == Max(12, Min(36, height \div 8))

Pad(p) == IF p THEN 10 ELSE 0

NoIcon == [present |-> FALSE, nw |-> 0, nh |-> 0]

\* int(icon.width() * (icon_h / icon.height())); the natural heights of
\* Icons are powers of two, for which the float quotient is exact
IconW(ic, icon_h) == TruncDiv(ic.nw * icon_h, ic.nh)

Blank(width, height) ==
    [mode |-> "blank", w |-> width, h |-> height,
     icon_x |-> 0, icon_y |-> 0, icon_w |-> 0, icon_h |-> 0,
     line_x |-> 0, line_y1 |-> 0, line_y2 |-> 0,
     area_x |-> 0, area_y |-> 0, area_w |-> 0, area_h |-> 0,
     fit_lines |-> <<>>, fit_w |-> 0, fit_h |-> 0,
     start |-> BaseSize(height), size |-> 0]

\* the icon + text branch
IconTextLayoutPadGap(width, height, ic, lines, p, m) ==
    LET pad == Pad(p)
        icon_h == height - pad * 2
        icon_w == IconW(ic, icon_h)
        line_x == pad + icon_w + pad
        area_x == line_x + pad
        area_w == width - area_x - pad
        area_h == height - pad * 2
    IN [Blank(width, height) EXCEPT
          !.mode = "icon+text",
          !.icon_x = pad, !.icon_y = pad, !.icon_w = icon_w, !.icon_h = icon_h,
          !.line_x = line_x, !.line_y1 = pad, !.line_y2 = height - pad,
          !.area_x = area_x, !.area_y = pad, !.area_w = area_w, !.area_h = area_h,
          !.fit_lines = lines, !.fit_w = area_w, !.fit_h = area_h,
          !.size = Fit(lines, area_w, area_h, BaseSize(height), m)]

IconTextLayout(width, height, ic, lines, p, m) ==
    LET pad == Pad(p)
        icon_h == height - pad * 2
        icon_w == IconW(ic, icon_h)
        icon_x == pad
        icon_y == pad
        line_x == icon_x + icon_w + pad
        area_x == line_x + 10
        area_y == pad
        area_w == width - area_x - pad
        area_h == height - pad * 2
    IN [Blank(width, height) EXCEPT
          !.mode = "icon+text",
          !.icon_x = icon_x, !.icon_y = icon_y,
          !.icon_w = icon_w, !.icon_h = icon_h,
          !.line_x = line_x, !.line_y1 = pad, !.line_y2 = height - pad,
          !.area_x = area_x, !.area_y = area_y,
          !.area_w = area_w, !.area_h = area_h,
          !.fit_lines = lines, !.fit_w = area_w, !.fit_h = area_h,
          !.size = Fit(lines, area_w, area_h, BaseSize(height), m)]

\* the icon-only branch
IconOnlyLayout(width, height, ic, p) ==
    LET pad == Pad(p)
        icon_h == height - pad * 2
        icon_w == IconW(ic, icon_h)
    IN [Blank(width, height) EXCEPT
          !.mode = "icon",
          !.icon_x = (width - icon_w) \div 2, !.icon_y = (height - icon_h) \div 2,
          !.icon_w = icon_w, !.icon_h = icon_h]

\* the text-only branch
TextOnlyLayout(width, height, lines, p, m) ==
    LET pad == Pad(p)
        area_w == width - pad * 2
        area_h == height - pad * 2
    IN [Blank(width, height) EXCEPT
          !.mode = "text",
          !.area_x = pad, !.area_y = pad, !.area_w = area_w, !.area_h = area_h,
          !.fit_lines = lines, !.fit_w = area_w, !.fit_h = area_h,
          !.size = Fit(lines, area_w, area_h, BaseSize(height), m)]

DrawLabelContent(width, height, ic, txt, p, m) ==
    LET lines == IF txt # <<>> THEN SplitNL(txt) ELSE <<>>
    IN IF ic.present /\ lines # <<>>
         THEN IconTextLayout(width, height, ic, lines, p, m)
       ELSE IF ic.present
         THEN IconOnlyLayout(width, height, ic, p)
       ELSE IF lines # <<>>
         THEN TextOnlyLayout(width, height, lines, p, m)
       ELSE Blank(width, height)

----------------------------------------------------------------------------
(* Canvas width resolver: the head of update_preview and generate_label *)

Unbounded == 10^9

Str(s) == [t |-> "str", n |-> 0, s |-> s]
IntW(n) == [t |-> "int", n |-> n, s |-> <<>>]
NoneW == [t |-> "none", n |-> 0, s |-> <<>>]

\* isinstance(width_val, str) and width_val.lower() == "auto"
IsAuto(wv) == wv.t = "str" /\ Lower(wv.s) = <<"a", "u", "t", "o">>

MaxOf(S) == IF S = {} THEN 0 ELSE CHOOSE x \in S : \A y \in S : y <= x

\* the "auto" branch (the same statements in both handlers)
AutoWidthNoGap(height, ic, txt, p, m) ==
    LET pad == Pad(p)
        size == Fit(SplitNL(RStripNL(txt)), Unbounded, height - pad * 2,
                    BaseSize(height), m)
        t == RStripNL(txt)
        lines == SplitNL(t)
        text_max_w == MaxOf({LineWidth(m, QFontPointSize(size), lines[i]) :
                               i \in 1..Len(lines)})
    IN [size |-> size, text_max_w |-> text_max_w,
        w |-> IF ic.present /\ t # <<>>
              THEN pad + IconW(ic, height - pad * 2) + text_max_w + pad
              ELSE text_max_w + pad * 2]

AutoWidth(height, ic, txt, p, m) ==
    LET pad == Pad(p)
        base_size == BaseSize(height)
        size == Fit(SplitNL(RStripNL(txt)), Unbounded, height - pad * 2,
                    base_size, m)
        pt == QFontPointSize(size)
        t == RStripNL(txt)
        lines == SplitNL(t)
        text_max_w == MaxOf({LineWidth(m, pt, lines[i]) : i \in 1..Len(lines)})
        icon_h == height - pad * 2
        icon_w == IconW(ic, icon_h)
    IN [size |-> size, text_max_w |-> text_max_w,
        w |-> IF ic.present /\ t # <<>>
              THEN pad + icon_w + pad + text_max_w + pad
              ELSE text_max_w + pad * 2]

\* int(w): the value, or the exception it raises
IntOf(wv) ==
    CASE wv.t = "int" -> [exc |-> "none", v |-> wv.n]
      [] wv.t = "str" ->
            IF wv.s # <<>> /\ \A i \in 1..Len(wv.s) : IsDigit(wv.s[i])
            THEN [exc |-> "none", v |-> DecimalVal(wv.s)]
            ELSE [exc |-> "ValueError", v |-> 0]
      [] OTHER -> [exc |-> "TypeError", v |-> 0]

\* update_preview, "Ensure width is integer": only ValueError is caught
PreviewWidth(wv) ==
    IF wv.t = "int" THEN [exc |-> "none", v |-> wv.n]
    ELSE IF IntOf(wv).exc = "ValueError" THEN [exc |-> "none", v |-> 0]
    ELSE IntOf(wv)

\* generate_label, "Ensure width is integer": every Exception is caught
ExportWidth(wv) ==
    IF IntOf(wv).exc # "none" THEN [exc |-> "none", v |-> 0] ELSE IntOf(wv)

NoAuto == [size |-> 0, text_max_w |-> 0, w |-> 0]

\* one render: resolve the width, then draw_label_content on the new pixmap
RenderOf(op, status, d, p, ic, txt, m) ==
    LET auto == IsAuto(d.width)
        a == IF auto THEN AutoWidth(d.height, ic, txt, p, m) ELSE NoAuto
        wv == IF auto THEN IntW(a.w) ELSE d.width
        cw == IF op = "preview" THEN PreviewWidth(wv) ELSE ExportWidth(wv)
    IN [exc |-> cw.exc,
        out |-> [op |-> op, status |-> status, auto |-> auto,
                 auto_size |-> a.size, text_max_w |-> a.text_max_w,
                 draw |-> DrawLabelContent(cw.v, d.height, ic, RStripNL(txt),
                                           p, m)]]

----------------------------------------------------------------------------
(* The program: the window's state and its handlers *)

Chars == {"a", NL}

RECURSIVE SeqsUpTo(_, _)
SeqsUpTo(S, n) ==
    IF n = 0 THEN {<<>>}
    ELSE LET R == SeqsUpTo(S, n - 1)
         IN R \cup {Append(r, c) : r \in {x \in R : Len(x) = n - 1}, c \in S}

\* text_input.setText("Text here")
InitText == <<"T", "e", "x", "t", " ", "h", "e", "r", "e">>

Texts == SeqsUpTo(Chars, MaxTextLen) \cup {InitText}

Icons == {NoIcon, [present |-> TRUE, nw |-> 48, nh |-> 32]}

\* a width of dimensions.yaml: an integer, "Auto", "40", "abc" or null
WidthVals == {IntW(FixedWidth), Str(<<"A", "u", "t", "o">>),
              Str(<<"4", "0">>), Str(<<"a", "b", "c">>), NoneW}

Heights == {k * HStep : k \in 1..MaxHK}

\* the presets of dimensions.yaml
Dimensions == {[width |-> wv, height |-> h] : wv \in WidthVals, h \in Heights}

\* the handler raised before it drew anything
NoRender(op) ==
    [op |-> op, status |-> "raised", auto |-> FALSE, auto_size |-> 0,
     text_max_w |-> 0, draw |-> Blank(0, 0)]

\* update_preview with the widgets' new values
UpdatePreview(d, p, ic, txt) ==
    \E r \in {RenderOf("preview", "none", d, p, ic, txt, meas)} :
        /\ err' = r.exc
        /\ render' = IF r.exc = "none" THEN r.out ELSE NoRender("preview")

\* __init__: load_dimensions, scan_icons, init_ui with its initial render;
\* the constructor returns only if that render raises nothing
Init ==
    /\ dims \in Dimensions
    /\ padding = FALSE
    /\ icon \in Icons
    /\ text = InitText
    /\ meas \in Measurers
    /\ \E r \in {RenderOf("preview", "none", dims, padding, icon, text, meas)} :
           r.exc = "none" /\ render = r.out
    /\ err = "none"
    /\ fLines = <<>> /\ fMaxW = 0 /\ fMaxH = 0 /\ fStart = 0
    /\ fAccepted = <<>> /\ fResult = 0 /\ fpc = "idle"

\* dim_combo.currentIndexChanged -> update_preview
SelectDimension ==
    \E d \in Dimensions \ {dims} :
        /\ dims' = d
        /\ UpdatePreview(d, padding, icon, text)
        /\ UNCHANGED <<padding, icon, text, meas, fitVars>>

\* icon_combo.currentIndexChanged -> update_preview
SelectIcon ==
    \E ic \in Icons \ {icon} :
        /\ icon' = ic
        /\ UpdatePreview(dims, padding, ic, text)
        /\ UNCHANGED <<dims, padding, text, meas, fitVars>>

\* text_input.textChanged -> update_preview
EditText ==
    \E t \in Texts \ {text} :
        /\ text' = t
        /\ UpdatePreview(dims, padding, icon, t)
        /\ UNCHANGED <<dims, padding, icon, meas, fitVars>>

\* padding_check.stateChanged -> update_preview
TogglePadding ==
    /\ padding' = ~padding
    /\ UpdatePreview(dims, ~padding, icon, text)
    /\ UNCHANGED <<dims, icon, text, meas, fitVars>>

\* generate_button.clicked -> generate_label; pix.save succeeds or fails
GenerateLabel ==
    \E ok \in BOOLEAN :
    \E r \in {RenderOf("export", IF ok THEN "saved" ELSE "failed",
                       dims, padding, icon, text, meas)} :
        /\ err' = r.exc
        /\ render' = IF r.exc = "none" THEN r.out ELSE NoRender("export")
        /\ UNCHANGED <<dims, padding, icon, text, meas, fitVars>>

Next ==
    \/ SelectDimension
    \/ SelectIcon
    \/ EditText
    \/ TogglePadding
    \/ GenerateLabel

Spec == Init /\ [][Next]_vars

----------------------------------------------------------------------------
(* The fit engine on its own, on inputs drawn from bounded sets *)

LineSet == SeqsUpTo({"a"}, MaxLineLen)

LineLists == SeqsUpTo(LineSet, MaxLines) \ {<<>>}

FitWidths == {4, 9, 15, Unbounded}

InitFit ==
    /\ dims = [width |-> IntW(FixedWidth), height |-> HStep]
    /\ padding = FALSE
    /\ icon = NoIcon
    /\ text = <<>>
    /\ meas \in AnyMeasurers
    /\ render = RenderOf("preview", "none", dims, padding, icon, text, meas).out
    /\ err = "none"
    /\ fLines \in LineLists
    /\ fMaxW \in FitWidths
    /\ fMaxH \in (0 - NegFitH)..MaxFitH
    /\ fStart \in 12..MaxStart
    /\ fAccepted = <<>>
    /\ fResult = 0
    /\ fpc = "call"

\* size = find_optimal_font_size_no_wrap(painter, lines, max_w, max_h, start)
FitCall ==
    /\ fpc = "call"
    /\ fAccepted' = IF Len(fLines) # 1
                    THEN Grow(fStart, fLines, fMaxW, fMaxH, meas) ELSE <<>>
    /\ fResult' = Fit(fLines, fMaxW, fMaxH, fStart, meas)
    /\ fpc' = "done"
    /\ UNCHANGED <<progVars, meas, fLines, fMaxW, fMaxH, fStart>>

NextFit == FitCall

SpecFit == InitFit /\ [][NextFit]_vars

----------------------------------------------------------------------------
(* Properties of the fit engine (checked under SpecFit) *)

\* both fit predicates at size s, for the inputs of the call
FitsAt(s) ==
    /\ LineHeight(meas, s) * Len(fLines) <= fMaxH
    /\ \A i \in 1..Len(fLines) : LineWidth(meas, s, fLines[i]) <= fMaxW

\* sizes above SizeCap overflow every max_h of the model
SizeCap == 2 * MaxFitH + MaxStart

\* C1: find_optimal_font_size_no_wrap never returns a font size below 10,
\* whatever the lines, max_w, max_h and start size.
C1_NeverBelowFloor == fpc = "done" => fResult >= 10

\* C2 (as stated): for single-line and multi-line text alike, the returned
\* size is the largest size at which both predicates hold, whenever some
\* size >= 10 satisfies both.
C2_LargestFitting ==
    (fpc = "done" /\ \E s \in 10..SizeCap : FitsAt(s))
        => /\ FitsAt(fResult)
           /\ \A s \in (fResult + 1)..SizeCap : ~FitsAt(s)

\* C2 (amended): whenever some size >= 10 satisfies both predicates the
\* returned size satisfies both; for a single line it is the largest size
\* not exceeding max_h that does, for several lines it need not be the
\* largest.
C2_LargestSingleLine ==
    (fpc = "done" /\ \E s \in 10..SizeCap : FitsAt(s))
        => /\ FitsAt(fResult)
           /\ Len(fLines) = 1 => \A s \in (fResult + 1)..fMaxH : ~FitsAt(s)

C2_Witness ==
    /\ fpc = "done"
    /\ Len(fLines) = 1
    /\ 10 < fResult /\ fResult < fMaxH
    /\ FitsAt(fResult) /\ ~FitsAt(fResult + 1)

\* C3: a returned size above 10 never overflows: the line height times the
\* line count is at most max_h and every line is at most max_w wide.
C3_NoOverflowAboveFloor == (fpc = "done" /\ fResult > 10) => FitsAt(fResult)

C3_Witness ==
    /\ fpc = "done"
    /\ Len(fLines) >= 2
    /\ fMaxW # Unbounded
    /\ 10 < fResult /\ fResult < fStart
    /\ ~FitsAt(fStart)

\* C7: for a single line, fixed max_w and measurer, the returned size is
\* monotone in max_h: a larger max_h never gives a smaller size.
C7_MonotoneInMaxH ==
    (fpc = "done" /\ Len(fLines) = 1)
        => \A h2 \in fMaxH..MaxFitH :
               fResult <= Fit(fLines, fMaxW, h2, fStart, meas)

C7_Witness ==
    /\ fpc = "done"
    /\ Len(fLines) = 1
    /\ fResult > 10
    /\ \E h2 \in (fMaxH + 1)..MaxFitH :
           fResult < Fit(fLines, fMaxW, h2, fStart, meas)

\* C9: for N # 1 lines every candidate the growth loop accepts is
\* start + 2k (k >= 1), is at most max_h // (N + 1) and satisfies both
\* predicates; the probe after the last accepted one exceeds that ceiling
\* or fails a predicate.
C9_GrowthCandidates ==
    (fpc = "done" /\ Len(fLines) # 1)
        => LET ceiling == fMaxH \div (Len(fLines) + 1)
               probe == fStart + 2 * (Len(fAccepted) + 1)
           IN /\ \A k \in 1..Len(fAccepted) :
                    /\ fAccepted[k] = fStart + 2 * k
                    /\ fAccepted[k] <= ceiling
                    /\ FitsAt(fAccepted[k])
              /\ probe > ceiling \/ ~FitsAt(probe)

C9_Witness ==
    /\ fpc = "done"
    /\ Len(fLines) >= 2
    /\ Len(fAccepted) >= 1
    /\ LET probe == fStart + 2 * (Len(fAccepted) + 1)
       IN probe <= fMaxH \div (Len(fLines) + 1) /\ ~FitsAt(probe)

----------------------------------------------------------------------------
(* Properties of the renders (checked under Spec) *)

Rendered == render.status # "raised"
Margin == IF padding THEN 10 ELSE 0
Stripped == RStripNL(text)

\* the upper bound the engine derives from its inputs
DerivedBound(lines, max_h, start) ==
    IF Len(lines) = 1 THEN max_h
    ELSE Max(start, max_h \div (Len(lines) + 1))

\* C4 (as stated): the font size chosen for a render never exceeds 72.
C4_AtMost72 ==
    /\ render.draw.mode \in {"icon+text", "text"} => render.draw.size <= 72
    /\ render.auto => render.auto_size <= 72

\* C4 (amended): the font size chosen for a render never exceeds the bound
\* derived from the call: max_h for a single line, max(start, max_h // (N+1))
\* for N lines; it is not capped at 72.
C4_AtMostDerivedBound ==
    /\ render.draw.mode \in {"icon+text", "text"}
          => render.draw.size <= DerivedBound(render.draw.fit_lines,
                                              render.draw.fit_h,
                                              render.draw.start)
    /\ render.auto
          => render.auto_size <= DerivedBound(SplitNL(Stripped),
                                              dims.height - 2 * Margin,
                                              BaseSize(dims.height))

C4_Witness ==
    /\ render.draw.mode \in {"icon+text", "text"}
    /\ render.draw.size > 72

\* C5: with width "auto" the canvas is margin + scaledIconWidth + margin +
\* textMaxWidth + margin wide when an icon is present and the text is not
\* empty, and textMaxWidth + 2 x margin wide otherwise; textMaxWidth is the
\* widest line at the size the fit engine returns for unbounded width and
\* max_h = height - 2 x margin.
C5_AutoWidth ==
    (Rendered /\ IsAuto(dims.width))
        => LET lines == SplitNL(Stripped)
               size == Fit(lines, Unbounded, dims.height - 2 * Margin,
                           BaseSize(dims.height), meas)
               widths == {LineWidth(meas, QFontPointSize(size), lines[i]) :
                            i \in 1..Len(lines)}
               scaled == IconW(icon, dims.height - 2 * Margin)
           IN /\ render.auto /\ render.auto_size = size
              /\ render.text_max_w \in widths
              /\ \A x \in widths : x <= render.text_max_w
              /\ render.draw.w =
                   IF icon.present /\ Stripped # <<>>
                   THEN Margin + scaled + Margin + render.text_max_w + Margin
                   ELSE render.text_max_w + 2 * Margin

C5_Witness ==
    /\ Rendered /\ IsAuto(dims.width)
    /\ render.op = "export"
    /\ icon.present /\ padding
    /\ Len(SplitNL(Stripped)) >= 2
    /\ render.text_max_w > 0
    /\ render.draw.w > render.text_max_w + 30

\* C6: a width that is neither "auto" nor convertible to an integer makes
\* the preview and the export use canvas width 0 and finish without an error.
C6_BadWidthRecovers ==
    (~IsAuto(dims.width) /\ IntOf(dims.width).exc # "none")
        => err = "none" /\ Rendered /\ render.draw.w = 0

\* C8: with an icon and text, the icon is at (margin, margin) with height
\* canvas height - 2 x margin, the divider at icon_x + icon_w + margin, and
\* the text region handed to the fit engine starts at divider + 10, ends at
\* canvas width - margin and spans margin .. canvas height - margin.
C8_IconTextGeometry ==
    render.draw.mode = "icon+text"
        => LET r == render.draw
           IN /\ r.h = dims.height
              /\ r.icon_x = Margin /\ r.icon_y = Margin
              /\ r.icon_h = r.h - 2 * Margin
              /\ r.icon_w = IconW(icon, r.icon_h)
              /\ r.line_x = r.icon_x + r.icon_w + Margin
              /\ r.area_x = r.line_x + 10
              /\ r.area_x + r.area_w = r.w - Margin
              /\ r.area_y = Margin
              /\ r.area_y + r.area_h = r.h - Margin
              /\ r.fit_w = r.area_w /\ r.fit_h = r.area_h

C8_Witness ==
    /\ render.draw.mode = "icon+text"
    /\ ~padding
    /\ render.draw.icon_w > 0
    /\ render.draw.area_w > 0

\* C10: with width "auto" and a non-empty text, the text region given to
\* the fit engine is at least as wide as the widest line the width resolver
\* measured.
C10_AutoRegionFitsText ==
    (Rendered /\ render.auto /\ Stripped # <<>>)
        => render.draw.fit_w >= render.text_max_w

====
